---------------------------- MODULE Spec2Model ----------------------------
(***************************************************************************)
(* Model of the diff and identity-resolution engine of src/src/App.jsx.    *)
(*                                                                         *)
(* A JavaScript string is modelled as a sequence of one-character strings, *)
(* a JavaScript array as a sequence, null/undefined line numbers and       *)
(* pairedWith references as 0 (line numbers and positions start at 1), and *)
(* an absent optional value as the empty sequence <<>> around a present    *)
(* value <<v>>.                                                            *)
(***************************************************************************)
EXTENDS Integers, Sequences, FiniteSets, TLC

VARIABLES oldText, newText, diff, chunks, isExpanded, v1Files, v2Files, matchedPairs,
          paths, fileSlugs, bt, isProcessing, load, selectedPair, searchTerm, clipboard, pc

vars == <<oldText, newText, diff, chunks, isExpanded, v1Files, v2Files, matchedPairs,
          paths, fileSlugs, bt, isProcessing, load, selectedPair, searchTerm, clipboard, pc>>

diffVars == <<oldText, newText, diff, chunks, isExpanded>>

matchVars == <<v1Files, v2Files, matchedPairs>>

slugVars == <<paths, fileSlugs>>

loadVars == <<isProcessing, load>>

\* The parts of the state a specification does not use.
NoComparison ==
    oldText = <<>> /\ newText = <<>> /\ diff = <<>> /\ chunks = <<>> /\ isExpanded = <<>>

NoFiles == v1Files = <<>> /\ v2Files = <<>> /\ matchedPairs = <<>>

NoSlugs == paths = <<>> /\ fileSlugs = <<>>

NoBacktrack == bt = <<>>

NoLoad == isProcessing = FALSE /\ load = <<>>

appVars == <<selectedPair, searchTerm, clipboard>>

NoSelection == selectedPair = <<>> /\ searchTerm = <<>> /\ clipboard = <<>>

(***************************************************************************)
(* Bounds of the model.                                                    *)
(***************************************************************************)
MaxLines == 3

MaxFiles == 3

MaxRun == 10

MaxNameLen == 3

MaxSelect == 2

(***************************************************************************)
(* Generic helpers.                                                        *)
(***************************************************************************)
Max(a, b) == IF a >= b THEN a ELSE b

Min(a, b) == IF a <= b THEN a ELSE b

Range(f) == {f[x] : x \in DOMAIN f}

RECURSIVE Concat(_)
Concat(ss) == IF ss = <<>> THEN <<>> ELSE Head(ss) \o Concat(Tail(ss))

RECURSIVE SeqsUpTo(_, _)
SeqsUpTo(S, n) ==
    IF n = 0 THEN {<<>>}
    ELSE LET shorter == SeqsUpTo(S, n - 1)
         IN  shorter \cup {Append(s, x) : s \in {t \in shorter : Len(t) = n - 1}, x \in S}

(***************************************************************************)
(* Characters.  \w, \s and \d of the JavaScript regular expressions.       *)
(***************************************************************************)
Digits == {"0", "1", "2", "3", "4", "5", "6", "7", "8", "9"}

LowerLetters ==
    {"a", "b", "c", "d", "e", "f", "g", "h", "i", "j", "k", "l", "m",
     "n", "o", "p", "q", "r", "s", "t", "u", "v", "w", "x", "y", "z"}

UpperLetters ==
    {"A", "B", "C", "D", "E", "F", "G", "H", "I", "J", "K", "L", "M",
     "N", "O", "P", "Q", "R", "S", "T", "U", "V", "W", "X", "Y", "Z"}

IsWordChar(c) == c \in LowerLetters \cup UpperLetters \cup Digits \cup {"_"}

IsSpaceChar(c) == c \in {" ", "\t", "\n", "\r"}

(***************************************************************************)
(* String.prototype.split('\n') and the `text || ''` default.              *)
(***************************************************************************)
Undefined == <<"undefined">>

OrEmpty(text) == IF text = Undefined \/ text = <<>> THEN <<>> ELSE text

RECURSIVE SplitFrom(_, _, _, _, _)
SplitFrom(s, sep, k, cur, acc) ==
    IF k > Len(s) THEN Append(acc, cur)
    ELSE IF s[k] = sep THEN SplitFrom(s, sep, k + 1, <<>>, Append(acc, cur))
         ELSE SplitFrom(s, sep, k + 1, Append(cur, s[k]), acc)

SplitOn(s, sep) == SplitFrom(s, sep, 1, <<>>, <<>>)

\* Mutant of SplitLines: the empty string after a trailing newline is dropped.
SplitLinesNoTrailing(text) ==
    LET arr == SplitOn(OrEmpty(text), "\n")
    IN  IF Len(arr) > 1 /\ arr[Len(arr)] = <<>> THEN SubSeq(arr, 1, Len(arr) - 1) ELSE arr

SplitLines(text) == SplitOn(OrEmpty(text), "\n")

(***************************************************************************)
(* buildLCSTable: dp is an array of m+1 rows of n+1 cells; row i and cell  *)
(* j of the code are dp[i + 1][j + 1] here.                                *)
(***************************************************************************)
Cell(dp, i, j) == dp[i + 1][j + 1]

\* Mutant of FillRow: an unequal cell takes the value of the cell above only.
RECURSIVE FillRowAboveOnly(_, _, _, _, _)
FillRowAboveOnly(prev, a, newArr, j, row) ==
    IF j > Len(newArr) THEN row
    ELSE FillRowAboveOnly(prev, a, newArr, j + 1,
                 Append(row, IF a = newArr[j] THEN prev[j] + 1 ELSE prev[j + 1]))

RECURSIVE FillRow(_, _, _, _, _)
FillRow(prev, a, newArr, j, row) ==
    IF j > Len(newArr) THEN row
    ELSE FillRow(prev, a, newArr, j + 1,
                 Append(row, IF a = newArr[j] THEN prev[j] + 1
                             ELSE Max(prev[j + 1], row[j])))

RECURSIVE FillRows(_, _, _, _)
FillRows(oldArr, newArr, i, dp) ==
    IF i > Len(oldArr) THEN dp
    ELSE FillRows(oldArr, newArr, i + 1,
                  Append(dp, FillRow(dp[i], oldArr[i], newArr, 1, <<0>>)))

BuildLCSTable(oldArr, newArr) ==
    FillRows(oldArr, newArr, 1, << [j \in 1..(Len(newArr) + 1) |-> 0] >>)

(***************************************************************************)
(* backtrackLCS: one iteration of the while loop, and the loop.  A loop    *)
(* state is [i, j, result]; unshift puts the new op in front.              *)
(***************************************************************************)
RawOp(type, oldIdx, newIdx, value) ==
    [type |-> type, oldIdx |-> oldIdx, newIdx |-> newIdx, value |-> value]

\* Mutant of BacktrackStep: the 'added' branch does not decrement j.
BacktrackStepKeepsJ(dp, oldArr, newArr, st) ==
    IF st.i > 0 /\ st.j > 0 /\ oldArr[st.i] = newArr[st.j]
    THEN [i |-> st.i - 1, j |-> st.j - 1,
          result |-> <<RawOp("equal", st.i, st.j, oldArr[st.i])>> \o st.result]
    ELSE IF st.j > 0 /\ (st.i = 0 \/ Cell(dp, st.i, st.j - 1) >= Cell(dp, st.i - 1, st.j))
    THEN [i |-> st.i, j |-> st.j,
          result |-> <<RawOp("added", 0, st.j, newArr[st.j])>> \o st.result]
    ELSE [i |-> st.i - 1, j |-> st.j,
          result |-> <<RawOp("removed", st.i, 0, oldArr[st.i])>> \o st.result]

\* Mutant of BacktrackStep: on a tie of the two table cells the 'removed'
\* branch is taken.
BacktrackStepPreferRemoved(dp, oldArr, newArr, st) ==
    IF st.i > 0 /\ st.j > 0 /\ oldArr[st.i] = newArr[st.j]
    THEN [i |-> st.i - 1, j |-> st.j - 1,
          result |-> <<RawOp("equal", st.i, st.j, oldArr[st.i])>> \o st.result]
    ELSE IF st.j > 0 /\ (st.i = 0 \/ Cell(dp, st.i, st.j - 1) > Cell(dp, st.i - 1, st.j))
    THEN [i |-> st.i, j |-> st.j - 1,
          result |-> <<RawOp("added", 0, st.j, newArr[st.j])>> \o st.result]
    ELSE [i |-> st.i - 1, j |-> st.j,
          result |-> <<RawOp("removed", st.i, 0, oldArr[st.i])>> \o st.result]

\* Mutant of BacktrackStep: the walk moves to the smaller of the two table
\* cells.
BacktrackStepTowardSmaller(dp, oldArr, newArr, st) ==
    IF st.i > 0 /\ st.j > 0 /\ oldArr[st.i] = newArr[st.j]
    THEN [i |-> st.i - 1, j |-> st.j - 1,
          result |-> <<RawOp("equal", st.i, st.j, oldArr[st.i])>> \o st.result]
    ELSE IF st.j > 0 /\ (st.i = 0 \/ Cell(dp, st.i, st.j - 1) <= Cell(dp, st.i - 1, st.j))
    THEN [i |-> st.i, j |-> st.j - 1,
          result |-> <<RawOp("added", 0, st.j, newArr[st.j])>> \o st.result]
    ELSE [i |-> st.i - 1, j |-> st.j,
          result |-> <<RawOp("removed", st.i, 0, oldArr[st.i])>> \o st.result]

BacktrackStep(dp, oldArr, newArr, st) ==
    IF st.i > 0 /\ st.j > 0 /\ oldArr[st.i] = newArr[st.j]
    THEN [i |-> st.i - 1, j |-> st.j - 1,
          result |-> <<RawOp("equal", st.i, st.j, oldArr[st.i])>> \o st.result]
    ELSE IF st.j > 0 /\ (st.i = 0 \/ Cell(dp, st.i, st.j - 1) >= Cell(dp, st.i - 1, st.j))
    THEN [i |-> st.i, j |-> st.j - 1,
          result |-> <<RawOp("added", 0, st.j, newArr[st.j])>> \o st.result]
    ELSE [i |-> st.i - 1, j |-> st.j,
          result |-> <<RawOp("removed", st.i, 0, oldArr[st.i])>> \o st.result]

RECURSIVE BacktrackLoop(_, _, _, _)
BacktrackLoop(dp, oldArr, newArr, st) ==
    IF st.i > 0 \/ st.j > 0
    THEN BacktrackLoop(dp, oldArr, newArr, BacktrackStep(dp, oldArr, newArr, st))
    ELSE st.result

\* The makeOp factories of the two callers (lines 92 and 101-106), by name.
WordOp(type, oldIdx, newIdx, value) == [value |-> value, type |-> type]

\* Mutant of LineOp: 'equal' is not renamed to 'unchanged'.
LineOpUnmapped(type, oldIdx, newIdx, content) ==
    [type |-> type, oldIdx |-> oldIdx, newIdx |-> newIdx, content |-> content]

LineOp(type, oldIdx, newIdx, content) ==
    [type |-> IF type = "equal" THEN "unchanged" ELSE type,
     oldIdx |-> oldIdx, newIdx |-> newIdx, content |-> content]

MakeOp(makeOp, type, oldIdx, newIdx, value) ==
    IF makeOp = "WordOp" THEN WordOp(type, oldIdx, newIdx, value)
    ELSE LineOp(type, oldIdx, newIdx, value)

BacktrackLCS(dp, oldArr, newArr, makeOp) ==
    LET raw == BacktrackLoop(dp, oldArr, newArr,
                             [i |-> Len(oldArr), j |-> Len(newArr), result |-> <<>>])
    IN  [k \in 1..Len(raw) |->
            MakeOp(makeOp, raw[k].type, raw[k].oldIdx, raw[k].newIdx, raw[k].value)]

(***************************************************************************)
(* getWordDiff.  tokenize is s.split(/(\s+|\b)/).filter(Boolean): the      *)
(* ECMAScript split loop with positions p, q counted from 0, the matcher   *)
(* of /(\s+|\b)/ anchored at q, the captured separator spliced into the    *)
(* result, and the empty strings dropped by filter(Boolean).               *)
(***************************************************************************)
SubStr(s, from, to) == [k \in 1..(to - from) |-> s[from + k]]

IsWordAt(s, k) == k >= 0 /\ k < Len(s) /\ IsWordChar(s[k + 1])

RECURSIVE SpaceRunEnd(_, _)
SpaceRunEnd(s, q) ==
    IF q < Len(s) /\ IsSpaceChar(s[q + 1]) THEN SpaceRunEnd(s, q + 1) ELSE q

\* End position of a match of /(\s+|\b)/ starting at q, or -1 when none.
SeparatorMatch(s, q) ==
    IF q < Len(s) /\ IsSpaceChar(s[q + 1]) THEN SpaceRunEnd(s, q)
    ELSE IF IsWordAt(s, q - 1) # IsWordAt(s, q) THEN q
    ELSE -1

RECURSIVE RegexSplitLoop(_, _, _, _)
RegexSplitLoop(s, p, q, acc) ==
    IF q >= Len(s) THEN Append(acc, SubStr(s, p, Len(s)))
    ELSE LET e == SeparatorMatch(s, q)
         IN  IF e = -1 \/ e = p THEN RegexSplitLoop(s, p, q + 1, acc)
             ELSE RegexSplitLoop(s, e, e, acc \o <<SubStr(s, p, q), SubStr(s, q, e)>>)

RegexSplit(s) ==
    IF Len(s) = 0
    THEN IF SeparatorMatch(s, 0) # -1 THEN <<>> ELSE <<s>>
    ELSE RegexSplitLoop(s, 0, 0, <<>>)

\* Mutant of Tokenize: the white-space tokens are dropped too.
TokenizeDropSpace(s) ==
    SelectSeq(RegexSplit(s), LAMBDA t : t # <<>> /\ ~IsSpaceChar(t[1]))

Tokenize(s) == SelectSeq(RegexSplit(s), LAMBDA t : t # <<>>)

GetWordDiff(oldStr, newStr) ==
    LET oldTokens == Tokenize(oldStr)
        newTokens == Tokenize(newStr)
        dp == BuildLCSTable(oldTokens, newTokens)
    IN  BacktrackLCS(dp, oldTokens, newTokens, "WordOp")

(***************************************************************************)
(* calculateDiff.  A diff line is                                          *)
(*   [type, oldLine, newLine, content, pairedWith, segments]               *)
(* where pairedWith is the position in the diff of the line object it      *)
(* refers to (0 when unset) and segments is <<>> when unset and            *)
(* <<coalesced>> when set.                                                 *)
(***************************************************************************)
DiffLine(type, oldLine, newLine, content) ==
    [type |-> type, oldLine |-> oldLine, newLine |-> newLine, content |-> content,
     pairedWith |-> 0, segments |-> <<>>]

\* Lines 124-131: the end of the run of non-unchanged ops starting at opIdx.
RECURSIVE RunEnd(_, _)
RunEnd(ops, opIdx) ==
    IF opIdx <= Len(ops) /\ ops[opIdx].type # "unchanged"
    THEN RunEnd(ops, opIdx + 1) ELSE opIdx

\* Mutant of Interleave: stops at the shorter of the two lists.
RECURSIVE InterleaveTruncated(_, _, _, _)
InterleaveTruncated(removed, added, k, out) ==
    IF k > Min(Len(removed), Len(added)) THEN out
    ELSE InterleaveTruncated(removed, added, k + 1,
            out \o <<DiffLine("removed", removed[k].oldIdx, 0, removed[k].content),
                     DiffLine("added", 0, added[k].newIdx, added[k].content)>>)

\* Mutant of Interleave: all removed lines, then all added lines.
InterleaveBlocks(removed, added, k, out) ==
    out \o [n \in 1..Len(removed) |->
               DiffLine("removed", removed[n].oldIdx, 0, removed[n].content)]
        \o [n \in 1..Len(added) |->
               DiffLine("added", 0, added[n].newIdx, added[n].content)]

\* Lines 134-142: removed[k] then added[k], for k below the longer length.
RECURSIVE Interleave(_, _, _, _)
Interleave(removed, added, k, out) ==
    IF k > Max(Len(removed), Len(added)) THEN out
    ELSE Interleave(removed, added, k + 1,
            out \o (IF k <= Len(removed)
                    THEN <<DiffLine("removed", removed[k].oldIdx, 0, removed[k].content)>>
                    ELSE <<>>)
                \o (IF k <= Len(added)
                    THEN <<DiffLine("added", 0, added[k].newIdx, added[k].content)>>
                    ELSE <<>>))

\* Lines 113-144: the re-sequencing loop over ops.
RECURSIVE Resequence(_, _, _)
Resequence(ops, opIdx, out) ==
    IF opIdx > Len(ops) THEN out
    ELSE IF ops[opIdx].type = "unchanged"
    THEN Resequence(ops, opIdx + 1,
            Append(out, DiffLine("unchanged", ops[opIdx].oldIdx, ops[opIdx].newIdx,
                                 ops[opIdx].content)))
    ELSE LET stop == RunEnd(ops, opIdx)
             run == SubSeq(ops, opIdx, stop - 1)
             removed == SelectSeq(run, LAMBDA o : o.type = "removed")
             added == SelectSeq(run, LAMBDA o : o.type # "removed")
         IN  Resequence(ops, stop, Interleave(removed, added, 1, out))

\* Mutant of Coalesce: every raw segment is kept as it is.
CoalesceNothing(rawSegments, k, coalesced) == rawSegments

\* Lines 163-171: merge adjacent segments of one type.
RECURSIVE Coalesce(_, _, _)
Coalesce(rawSegments, k, coalesced) ==
    IF k > Len(rawSegments) THEN coalesced
    ELSE LET seg == rawSegments[k]
             n == Len(coalesced)
         IN  IF n > 0 /\ coalesced[n].type = seg.type
             THEN Coalesce(rawSegments, k + 1,
                    [coalesced EXCEPT ![n].value = coalesced[n].value \o seg.value])
             ELSE Coalesce(rawSegments, k + 1, Append(coalesced, seg))

IsChangePair(current, next) ==
    \/ current.type = "removed" /\ next.type = "added"
    \/ current.type = "added" /\ next.type = "removed"

\* The word diff of the change pair at positions k, k + 1.
\* Mutant of PairSegments: the word differ gets the added content first.
PairSegmentsNewFirst(current, next) ==
    LET oldStr == IF current.type = "removed" THEN current.content ELSE next.content
        newStr == IF current.type = "added" THEN current.content ELSE next.content
    IN  Coalesce(GetWordDiff(newStr, oldStr), 1, <<>>)

PairSegments(current, next) ==
    LET oldStr == IF current.type = "removed" THEN current.content ELSE next.content
        newStr == IF current.type = "added" THEN current.content ELSE next.content
    IN  Coalesce(GetWordDiff(oldStr, newStr), 1, <<>>)

\* Mutant of PairingPass: lines already paired are paired again.
RECURSIVE PairingPassUnguarded(_, _)
PairingPassUnguarded(d, k) ==
    IF k > Len(d) - 1 THEN d
    ELSE IF IsChangePair(d[k], d[k + 1])
         THEN PairingPassUnguarded(
                [d EXCEPT ![k].pairedWith = k + 1,
                          ![k].segments = <<PairSegments(d[k], d[k + 1])>>,
                          ![k + 1].pairedWith = k,
                          ![k + 1].segments = <<PairSegments(d[k], d[k + 1])>>],
                k + 1)
         ELSE PairingPassUnguarded(d, k + 1)

\* Lines 147-177: the pairing pass; k is the position of `current`.
RECURSIVE PairingPass(_, _)
PairingPass(d, k) ==
    IF k > Len(d) - 1 THEN d
    ELSE LET current == d[k]
             next == d[k + 1]
         IN  IF IsChangePair(current, next) /\ current.pairedWith = 0 /\ next.pairedWith = 0
             THEN LET coalesced == PairSegments(current, next)
                  IN  PairingPass([d EXCEPT ![k].pairedWith = k + 1,
                                            ![k].segments = <<coalesced>>,
                                            ![k + 1].pairedWith = k,
                                            ![k + 1].segments = <<coalesced>>],
                                  k + 1)
             ELSE PairingPass(d, k + 1)

CalculateDiff(oldTextArg, newTextArg) ==
    LET oldLines == SplitLines(oldTextArg)
        newLines == SplitLines(newTextArg)
        dp == BuildLCSTable(oldLines, newLines)
        ops == BacktrackLCS(dp, oldLines, newLines, "LineOp")
    IN  PairingPass(Resequence(ops, 1, <<>>), 1)

(***************************************************************************)
(* chunkifyDiff.  A chunk is [type, lines]; its type is the type of its    *)
(* first line.                                                             *)
(***************************************************************************)
\* Mutant of ChunkLoop: the chunk in progress at the end is not pushed.
RECURSIVE ChunkLoopNoFinalPush(_, _, _, _)
ChunkLoopNoFinalPush(d, i, currentChunk, chunkList) ==
    IF i > Len(d) THEN chunkList
    ELSE IF \/ d[i].type = currentChunk.type
            \/ (d[i].type # "unchanged" /\ currentChunk.type # "unchanged")
    THEN ChunkLoopNoFinalPush(d, i + 1,
                   [currentChunk EXCEPT !.lines = Append(currentChunk.lines, d[i])],
                   chunkList)
    ELSE ChunkLoopNoFinalPush(d, i + 1, [type |-> d[i].type, lines |-> <<d[i]>>],
                   Append(chunkList, currentChunk))

\* Mutant of ChunkLoop: a new chunk starts whenever the line type changes.
RECURSIVE ChunkLoopByType(_, _, _, _)
ChunkLoopByType(d, i, currentChunk, chunkList) ==
    IF i > Len(d) THEN Append(chunkList, currentChunk)
    ELSE IF d[i].type = currentChunk.type
    THEN ChunkLoopByType(d, i + 1,
                   [currentChunk EXCEPT !.lines = Append(currentChunk.lines, d[i])],
                   chunkList)
    ELSE ChunkLoopByType(d, i + 1, [type |-> d[i].type, lines |-> <<d[i]>>],
                   Append(chunkList, currentChunk))

RECURSIVE ChunkLoop(_, _, _, _)
ChunkLoop(d, i, currentChunk, chunkList) ==
    IF i > Len(d) THEN Append(chunkList, currentChunk)
    ELSE IF \/ d[i].type = currentChunk.type
            \/ (d[i].type # "unchanged" /\ currentChunk.type # "unchanged")
    THEN ChunkLoop(d, i + 1,
                   [currentChunk EXCEPT !.lines = Append(currentChunk.lines, d[i])],
                   chunkList)
    ELSE ChunkLoop(d, i + 1, [type |-> d[i].type, lines |-> <<d[i]>>],
                   Append(chunkList, currentChunk))

ChunkifyDiff(d) ==
    IF Len(d) = 0 THEN <<>>
    ELSE ChunkLoop(d, 2, [type |-> d[1].type, lines |-> <<d[1]>>], <<>>)

(***************************************************************************)
(* ChunkBlock.  What a chunk displays is a sequence of items, each a diff  *)
(* line ([kind |-> "line", line |-> <<l>>, count |-> 0]) or the fold       *)
(* button ([kind |-> "fold", line |-> <<>>, count |-> foldedCount]).       *)
(***************************************************************************)
ContextLines == 3

LineItem(l) == [kind |-> "line", line |-> <<l>>, count |-> 0]

FoldItem(foldedCount) == [kind |-> "fold", line |-> <<>>, count |-> foldedCount]

LineItems(ls) == [k \in 1..Len(ls) |-> LineItem(ls[k])]

\* Array.prototype.slice(0, n) and slice(-n).
SliceFirst(a, n) == SubSeq(a, 1, Min(n, Len(a)))

SliceLast(a, n) == SubSeq(a, Max(1, Len(a) - n + 1), Len(a))

\* Mutant of ShouldFold: the threshold is twice the context.
ShouldFoldOverContext(chunk) ==
    chunk.type = "unchanged" /\ Len(chunk.lines) > ContextLines * 2

ShouldFold(chunk) ==
    chunk.type = "unchanged" /\ Len(chunk.lines) > ContextLines * 2 + 2

ChunkBlock(chunk, expanded) ==
    IF ~ShouldFold(chunk) \/ expanded THEN LineItems(chunk.lines)
    ELSE LET startLines == SliceFirst(chunk.lines, ContextLines)
             endLines == SliceLast(chunk.lines, ContextLines)
             foldedCount == Len(chunk.lines) - ContextLines * 2
         IN  LineItems(startLines) \o <<FoldItem(foldedCount)>> \o LineItems(endLines)

\* Mutant of OnExpandClick: the click toggles the flag.
OnExpandClickToggle(flags, c) == [flags EXCEPT ![c] = ~flags[c]]

\* onClick of the fold button of chunk c: setIsExpanded(true).
OnExpandClick(flags, c) == [flags EXCEPT ![c] = TRUE]

(***************************************************************************)
(* getFileSlug.  Positions are 1-based; a match end is the position after  *)
(* the match, 0 when the pattern does not match at the position.           *)
(***************************************************************************)
UpperSeq ==
    <<"A", "B", "C", "D", "E", "F", "G", "H", "I", "J", "K", "L", "M",
      "N", "O", "P", "Q", "R", "S", "T", "U", "V", "W", "X", "Y", "Z">>

LowerSeq ==
    <<"a", "b", "c", "d", "e", "f", "g", "h", "i", "j", "k", "l", "m",
      "n", "o", "p", "q", "r", "s", "t", "u", "v", "w", "x", "y", "z">>

LowerChar(c) ==
    IF c \in UpperLetters
    THEN LowerSeq[CHOOSE k \in 1..Len(UpperSeq) : UpperSeq[k] = c]
    ELSE c

ToLowerCase(s) == [k \in 1..Len(s) |-> LowerChar(s[k])]

IsSeparator(c) == c \in {".", "_", "-"}

IsDigitAt(s, k) == k <= Len(s) /\ s[k] \in Digits

RECURSIVE DigitRunEnd(_, _)
DigitRunEnd(s, k) == IF IsDigitAt(s, k) THEN DigitRunEnd(s, k + 1) ELSE k

\* (\.\d+)* from position k.
RECURSIVE MinorVersionsEnd(_, _)
MinorVersionsEnd(s, k) ==
    IF k <= Len(s) /\ s[k] = "." /\ IsDigitAt(s, k + 1)
    THEN MinorVersionsEnd(s, DigitRunEnd(s, k + 1))
    ELSE k

\* Mutant of VersionMatchEnd: the optional 'v' is not accepted.
VersionMatchEndNoV(s, k) ==
    IF ~IsSeparator(s[k]) THEN 0
    ELSE IF IsDigitAt(s, k + 1) THEN MinorVersionsEnd(s, DigitRunEnd(s, k + 1)) ELSE 0

\* /[._-]v?\d+(\.\d+)*/ at position k.
VersionMatchEnd(s, k) ==
    IF ~IsSeparator(s[k]) THEN 0
    ELSE LET d == IF k + 1 <= Len(s) /\ s[k + 1] = "v" THEN k + 2 ELSE k + 1
         IN  IF IsDigitAt(s, d) THEN MinorVersionsEnd(s, DigitRunEnd(s, d)) ELSE 0

RECURSIVE StripVersions(_, _, _)
StripVersions(s, k, out) ==
    IF k > Len(s) THEN out
    ELSE LET e == VersionMatchEnd(s, k)
         IN  IF e = 0 THEN StripVersions(s, k + 1, Append(out, s[k]))
             ELSE StripVersions(s, e, out)

StageMarkers ==
    << <<"l", "e", "g", "a", "c", "y">>, <<"m", "o", "d", "e", "r", "n">>,
       <<"o", "l", "d">>, <<"n", "e", "w">>, <<"f", "i", "n", "a", "l">>,
       <<"l", "a", "t", "e", "s", "t">> >>

HasAt(s, k, w) == k + Len(w) - 1 <= Len(s) /\ SubSeq(s, k, k + Len(w) - 1) = w

\* /[._-](legacy|modern|old|new|final|latest)/ at position k.
StageMatchEnd(s, k) ==
    IF ~IsSeparator(s[k]) THEN 0
    ELSE LET hits == {n \in 1..Len(StageMarkers) : HasAt(s, k + 1, StageMarkers[n])}
         IN  IF hits = {} THEN 0
             ELSE LET first == CHOOSE n \in hits : \A o \in hits : n <= o
                  IN  k + 1 + Len(StageMarkers[first])

RECURSIVE StripStages(_, _, _)
StripStages(s, k, out) ==
    IF k > Len(s) THEN out
    ELSE LET e == StageMatchEnd(s, k)
         IN  IF e = 0 THEN StripStages(s, k + 1, Append(out, s[k]))
             ELSE StripStages(s, e, out)

\* /\.[^/.]+$/ : the leftmost dot followed, to the end, by one or more
\* characters that are neither '/' nor '.'.
StripExtension(s) ==
    LET starts == {k \in 1..Len(s) :
                      /\ s[k] = "."
                      /\ k < Len(s)
                      /\ \A o \in (k + 1)..Len(s) : s[o] \notin {"/", "."}}
    IN  IF starts = {} THEN s
        ELSE SubSeq(s, 1, (CHOOSE k \in starts : \A o \in starts : k <= o) - 1)

RECURSIVE TrimStart(_)
TrimStart(s) == IF s # <<>> /\ IsSpaceChar(Head(s)) THEN TrimStart(Tail(s)) ELSE s

RECURSIVE TrimEnd(_)
TrimEnd(s) ==
    IF s # <<>> /\ IsSpaceChar(s[Len(s)]) THEN TrimEnd(SubSeq(s, 1, Len(s) - 1)) ELSE s

Trim(s) == TrimEnd(TrimStart(s))

\* Mutant of GetFileSlug: toLowerCase is left out.
GetFileSlugCaseSensitive(path) ==
    LET segments == SplitOn(path, "/")
        filename == segments[Len(segments)]
    IN  Trim(StripExtension(StripStages(StripVersions(filename, 1, <<>>), 1, <<>>)))

GetFileSlug(path) ==
    LET segments == SplitOn(path, "/")
        filename == segments[Len(segments)]
    IN  Trim(StripExtension(StripStages(StripVersions(ToLowerCase(filename), 1, <<>>),
                                        1, <<>>)))

(***************************************************************************)
(* matchedPairs.  A Map is a sequence of [slug, files] entries in          *)
(* insertion order, a Set of slugs a sequence without repetition in        *)
(* insertion order.  A pair is [type, slug, v1, v2] with v1, v2 either     *)
(* <<>> (null) or <<file>>.                                                *)
(***************************************************************************)
MapHas(map, slug) == \E k \in 1..Len(map) : map[k].slug = slug

MapIndex(map, slug) == CHOOSE k \in 1..Len(map) : map[k].slug = slug

\* map.get(slug) || []
MapGet(map, slug) == IF MapHas(map, slug) THEN map[MapIndex(map, slug)].files ELSE <<>>

RECURSIVE BuildFileMapFrom(_, _, _)
BuildFileMapFrom(files, k, map) ==
    IF k > Len(files) THEN map
    ELSE LET f == files[k]
             slug == GetFileSlug(f.path)
             withKey == IF MapHas(map, slug) THEN map
                        ELSE Append(map, [slug |-> slug, files |-> <<>>])
             at == MapIndex(withKey, slug)
         IN  BuildFileMapFrom(files, k + 1,
                [withKey EXCEPT ![at].files = Append(withKey[at].files, f)])

BuildFileMap(files) == BuildFileMapFrom(files, 1, <<>>)

MapKeys(map) == [k \in 1..Len(map) |-> map[k].slug]

RECURSIVE SetOfSeq(_, _, _)
SetOfSeq(items, k, out) ==
    IF k > Len(items) THEN out
    ELSE IF \E o \in 1..Len(out) : out[o] = items[k] THEN SetOfSeq(items, k + 1, out)
         ELSE SetOfSeq(items, k + 1, Append(out, items[k]))

\* Collation order of the characters a slug of the model can hold, as
\* String.prototype.localeCompare orders them: white space, punctuation,
\* digits, letters.
CollationSeq ==
    <<" ", "_", "-", ".", "0", "1", "2", "3", "4", "5", "6", "7", "8", "9">> \o LowerSeq

CollationRank(c) == CHOOSE k \in 1..Len(CollationSeq) : CollationSeq[k] = c

RECURSIVE LocaleCompareFrom(_, _, _)
LocaleCompareFrom(a, b, k) ==
    IF k > Len(a) /\ k > Len(b) THEN 0
    ELSE IF k > Len(a) THEN -1
    ELSE IF k > Len(b) THEN 1
    ELSE IF CollationRank(a[k]) < CollationRank(b[k]) THEN -1
    ELSE IF CollationRank(a[k]) > CollationRank(b[k]) THEN 1
    ELSE LocaleCompareFrom(a, b, k + 1)

LocaleCompare(a, b) == LocaleCompareFrom(a, b, 1)

\* Array.prototype.sort with (a, b) => a.slug.localeCompare(b.slug): a stable
\* sort, here by insertion.
RECURSIVE InsertSorted(_, _, _)
InsertSorted(sorted, x, k) ==
    IF k > Len(sorted) \/ LocaleCompare(x.slug, sorted[k].slug) < 0
    THEN SubSeq(sorted, 1, k - 1) \o <<x>> \o SubSeq(sorted, k, Len(sorted))
    ELSE InsertSorted(sorted, x, k + 1)

RECURSIVE SortFrom(_, _, _)
SortFrom(items, k, sorted) ==
    IF k > Len(items) THEN sorted
    ELSE SortFrom(items, k + 1, InsertSorted(sorted, items[k], 1))

\* Mutant of SortBySlug: the pairs stay in insertion order.
SortBySlugUnsorted(pairs) == pairs

SortBySlug(pairs) == SortFrom(pairs, 1, <<>>)

\* Mutant of PairOf: the last file recorded for the slug is used.
PairOfLast(v1Map, v2Map, slug) ==
    LET v1Matches == MapGet(v1Map, slug)
        v2Matches == MapGet(v2Map, slug)
    IN  IF Len(v1Matches) > 0 /\ Len(v2Matches) > 0
        THEN [type |-> "modified", slug |-> slug,
              v1 |-> <<v1Matches[Len(v1Matches)]>>, v2 |-> <<v2Matches[Len(v2Matches)]>>]
        ELSE IF Len(v1Matches) > 0
        THEN [type |-> "deleted", slug |-> slug,
              v1 |-> <<v1Matches[Len(v1Matches)]>>, v2 |-> <<>>]
        ELSE [type |-> "added", slug |-> slug,
              v1 |-> <<>>, v2 |-> <<v2Matches[Len(v2Matches)]>>]

PairOf(v1Map, v2Map, slug) ==
    LET v1Matches == MapGet(v1Map, slug)
        v2Matches == MapGet(v2Map, slug)
    IN  IF Len(v1Matches) > 0 /\ Len(v2Matches) > 0
        THEN [type |-> "modified", slug |-> slug,
              v1 |-> <<v1Matches[1]>>, v2 |-> <<v2Matches[1]>>]
        ELSE IF Len(v1Matches) > 0
        THEN [type |-> "deleted", slug |-> slug, v1 |-> <<v1Matches[1]>>, v2 |-> <<>>]
        ELSE [type |-> "added", slug |-> slug, v1 |-> <<>>, v2 |-> <<v2Matches[1]>>]

\* Mutant of MatchedPairs: only the slugs of the base list are paired.
MatchedPairsBaseOnly(v1, v2) ==
    IF Len(v1) = 0 /\ Len(v2) = 0 THEN <<>>
    ELSE LET v1Map == BuildFileMap(v1)
             v2Map == BuildFileMap(v2)
             allSlugs == MapKeys(v1Map)
         IN  SortBySlug([k \in 1..Len(allSlugs) |-> PairOf(v1Map, v2Map, allSlugs[k])])

MatchedPairs(v1, v2) ==
    IF Len(v1) = 0 /\ Len(v2) = 0 THEN <<>>
    ELSE LET v1Map == BuildFileMap(v1)
             v2Map == BuildFileMap(v2)
             allSlugs == SetOfSeq(MapKeys(v1Map) \o MapKeys(v2Map), 1, <<>>)
         IN  SortBySlug([k \in 1..Len(allSlugs) |-> PairOf(v1Map, v2Map, allSlugs[k])])

(***************************************************************************)
(* Inputs.                                                                 *)
(***************************************************************************)
LinePool == {<<>>, <<"a", " ", "b">>, <<"b", " ", "a">>}

RECURSIVE JoinLines(_)
JoinLines(ls) ==
    IF Len(ls) = 1 THEN ls[1] ELSE ls[1] \o <<"\n">> \o JoinLines(Tail(ls))

TextPool == {JoinLines(ls) : ls \in SeqsUpTo(LinePool, MaxLines) \ {<<>>}} \cup {Undefined}

\* "foo\nbar\n" and "foo\nbaz\n"
ExampleOldText == <<"f", "o", "o", "\n", "b", "a", "r", "\n">>

ExampleNewText == <<"f", "o", "o", "\n", "b", "a", "z", "\n">>

TextPairs == (TextPool \X TextPool) \cup {<<ExampleOldText, ExampleNewText>>}

\* Texts with long unchanged runs: n1 equal lines, one changed line, and n2
\* equal lines.
RunLine == <<"a">>

Repeat(x, n) == [k \in 1..n |-> x]

FoldText(n1, changed, n2) == JoinLines(Repeat(RunLine, n1) \o <<changed>> \o Repeat(RunLine, n2))

FoldTextPairs ==
    {<<FoldText(n1, <<"a", " ", "b">>, n2), FoldText(n1, <<"b", " ", "a">>, n2)>> :
        n1 \in 0..MaxRun, n2 \in 0..MaxRun}

\* Paths for getFileSlug: a directory part and a file name made of at most
\* MaxNameLen pieces; the second path has another directory part and the
\* same name in another letter case, or a longer name.
NamePieces ==
    {<<"a">>, <<"V">>, <<"1">>, <<".">>, <<"-">>, <<" ">>, <<"O", "l", "d">>, <<"J", "s">>}

Names == {Concat(ps) : ps \in SeqsUpTo(NamePieces, MaxNameLen)}

DirPool == {<<>>, <<"s", "r", "c", "/">>, <<"A", ".", "j", "s", "/", "b", "-", "1", "/">>}

UpperChar(c) ==
    IF c \in LowerLetters
    THEN UpperSeq[CHOOSE k \in 1..Len(LowerSeq) : LowerSeq[k] = c]
    ELSE c

ToUpperCase(s) == [k \in 1..Len(s) |-> UpperChar(s[k])]

SwapCase(s) == [k \in 1..Len(s) |-> IF s[k] \in LowerLetters THEN UpperChar(s[k]) ELSE LowerChar(s[k])]

Variants(name) == {ToUpperCase(name), SwapCase(name), name \o <<"a">>}

\* Every file of the model has a content that identifies it.
FileContent(path) == path

File(path) == [path |-> path, content |-> FileContent(path), size |-> Len(FileContent(path))]

Path_a_v1 == <<"a", "_", "v", "1", ".", "j", "s">>

Path_a_v2 == <<"a", "_", "v", "2", ".", "j", "s">>

Path_util_legacy ==
    <<"u", "t", "i", "l", "-", "l", "e", "g", "a", "c", "y", ".", "j", "s">>

Path_util_modern ==
    <<"u", "t", "i", "l", "-", "m", "o", "d", "e", "r", "n", ".", "j", "s">>

Path_new == <<"n", "e", "w", ".", "j", "s">>

PathPool == {Path_a_v1, Path_a_v2, Path_util_legacy, Path_util_modern, Path_new}

HasNoRepeat(s) == \A i, j \in 1..Len(s) : i # j => s[i] # s[j]

\* The files of one directory selection: distinct paths, in any order.
FileLists ==
    {[k \in 1..Len(ps) |-> File(ps[k])] :
        ps \in {qs \in SeqsUpTo(PathPool, MaxFiles) : HasNoRepeat(qs)}}

(***************************************************************************)
(* The comparison of one pair (ComparisonView): the two contents are the   *)
(* props, Render computes the memoized diff and chunks.                    *)
(***************************************************************************)
InitDiff ==
    /\ \E p \in TextPairs : oldText = p[1] /\ newText = p[2]
    /\ diff = <<>>
    /\ chunks = <<>>
    /\ isExpanded = <<>>
    /\ NoFiles
    /\ NoSlugs
    /\ NoBacktrack
    /\ NoSelection
    /\ NoLoad
    /\ pc = "mounted"

Render ==
    /\ pc = "mounted"
    /\ diff' = CalculateDiff(oldText, newText)
    /\ chunks' = ChunkifyDiff(diff')
    /\ isExpanded' = [c \in 1..Len(chunks') |-> FALSE]
    /\ pc' = "rendered"
    /\ UNCHANGED <<oldText, newText, matchVars, slugVars, bt, loadVars, appVars>>

NextDiff == Render

SpecDiff == InitDiff /\ [][NextDiff]_vars

(***************************************************************************)
(* The display of a comparison with long unchanged runs: Render mounts the *)
(* ChunkBlocks with isExpanded = false, Expand is a click on the fold      *)
(* button of a chunk that folds.                                           *)
(***************************************************************************)
InitFold ==
    /\ \E p \in FoldTextPairs : oldText = p[1] /\ newText = p[2]
    /\ diff = <<>>
    /\ chunks = <<>>
    /\ isExpanded = <<>>
    /\ NoFiles
    /\ NoSlugs
    /\ NoBacktrack
    /\ NoSelection
    /\ NoLoad
    /\ pc = "mounted"

Expand(c) ==
    /\ pc \in {"rendered", "idle"}
    /\ ShouldFold(chunks[c])
    /\ isExpanded' = OnExpandClick(isExpanded, c)
    /\ UNCHANGED <<oldText, newText, diff, chunks, matchVars, slugVars, bt, loadVars, pc, appVars>>

NextFold == Render \/ \E c \in 1..Len(chunks) : Expand(c)

SpecFold == InitFold /\ [][NextFold]_vars

(***************************************************************************)
(* getFileSlug applied to two paths.                                       *)
(***************************************************************************)
InitSlug ==
    /\ \E d1 \in {<<>>, <<"s", "r", "c", "/">>}, d2 \in DirPool \ {<<>>}, name \in Names :
          \E other \in Variants(name) : paths = <<d1 \o name, d2 \o other>>
    /\ fileSlugs = <<>>
    /\ NoComparison
    /\ NoFiles
    /\ NoBacktrack
    /\ NoSelection
    /\ NoLoad
    /\ pc = "paths"

Slugify ==
    /\ pc = "paths"
    /\ fileSlugs' = <<GetFileSlug(paths[1]), GetFileSlug(paths[2])>>
    /\ pc' = "slugged"
    /\ UNCHANGED <<paths, diffVars, matchVars, bt, loadVars, appVars>>

NextSlug == Slugify

SpecSlug == InitSlug /\ [][NextSlug]_vars

(***************************************************************************)
(* calculateDiff with the loop of backtrackLCS taken one iteration at a    *)
(* time.  bt holds the arguments of backtrackLCS, its locals i, j and      *)
(* result, and the number of iterations made.                              *)
(***************************************************************************)
InitBacktrack ==
    /\ \E p \in TextPairs : oldText = p[1] /\ newText = p[2]
    /\ diff = <<>>
    /\ chunks = <<>>
    /\ isExpanded = <<>>
    /\ NoFiles
    /\ NoSlugs
    /\ NoBacktrack
    /\ NoSelection
    /\ NoLoad
    /\ pc = "mounted"

\* Lines 96-99 and 67-68: split, build the table, enter backtrackLCS.
BeginBacktrack ==
    /\ pc = "mounted"
    /\ LET oldLines == SplitLines(oldText)
           newLines == SplitLines(newText)
       IN  bt' = [oldArr |-> oldLines, newArr |-> newLines,
                  dp |-> BuildLCSTable(oldLines, newLines),
                  st |-> [i |-> Len(oldLines), j |-> Len(newLines), result |-> <<>>],
                  iterations |-> 0]
    /\ pc' = "backtracking"
    /\ UNCHANGED <<diffVars, matchVars, slugVars, loadVars, appVars>>

\* Lines 69-80: one iteration of the while loop.
BacktrackIteration ==
    /\ pc = "backtracking"
    /\ bt.st.i > 0 \/ bt.st.j > 0
    /\ bt' = [bt EXCEPT !.st = BacktrackStep(bt.dp, bt.oldArr, bt.newArr, bt.st),
                        !.iterations = @ + 1]
    /\ UNCHANGED <<diffVars, matchVars, slugVars, loadVars, pc, appVars>>

\* Lines 81, 108-180 and 348: the loop is left, the ops are resequenced and
\* paired, the diff is chunked.
FinishDiff ==
    /\ pc = "backtracking"
    /\ ~(bt.st.i > 0 \/ bt.st.j > 0)
    /\ LET raw == bt.st.result
           ops == [k \in 1..Len(raw) |->
                      MakeOp("LineOp", raw[k].type, raw[k].oldIdx, raw[k].newIdx, raw[k].value)]
       IN  diff' = PairingPass(Resequence(ops, 1, <<>>), 1)
    /\ chunks' = ChunkifyDiff(diff')
    /\ isExpanded' = [c \in 1..Len(chunks') |-> FALSE]
    /\ pc' = "rendered"
    /\ UNCHANGED <<oldText, newText, bt, matchVars, slugVars, loadVars, appVars>>

NextBacktrack == BeginBacktrack \/ BacktrackIteration \/ FinishDiff

SpecBacktrack == InitBacktrack /\ [][NextBacktrack]_vars

(***************************************************************************)
(* The directory loader (App, lines 439-469).  A selected file is a record *)
(* [path, content, size]: its webkitRelativePath, the text a successful    *)
(* read gives, and its size.                                               *)
(***************************************************************************)
DEFAULT_IGNORE ==
    << <<"p", "n", "g">>,
       <<"j", "p", "g">>,
       <<"j", "p", "e", "g">>,
       <<"g", "i", "f">>,
       <<"s", "v", "g">>,
       <<"i", "c", "o">>,
       <<"p", "d", "f">>,
       <<"z", "i", "p">>,
       <<"t", "a", "r">>,
       <<"g", "z">>,
       <<"e", "x", "e">>,
       <<"d", "l", "l">>,
       <<"s", "o">>,
       <<"d", "y", "l", "i", "b">>,
       <<"b", "i", "n">>,
       <<"w", "o", "f", "f">>,
       <<"w", "o", "f", "f", "2">>,
       <<"t", "t", "f">>,
       <<"e", "o", "t">>,
       <<"n", "o", "d", "e", "_", "m", "o", "d", "u", "l", "e", "s">>,
       <<".", "g", "i", "t">>,
       <<".", "D", "S", "_", "S", "t", "o", "r", "e">>,
       <<"d", "i", "s", "t">>,
       <<"b", "u", "i", "l", "d">>,
       <<"_", "_", "p", "y", "c", "a", "c", "h", "e", "_", "_">>,
       <<".", "n", "e", "x", "t">> >>

BatchSize == 20

StartsWith(s, p) == Len(p) <= Len(s) /\ SubSeq(s, 1, Len(p)) = p

EndsWith(s, p) == Len(p) <= Len(s) /\ SubSeq(s, Len(s) - Len(p) + 1, Len(s)) = p

Includes(s, p) == \E k \in 1..(Len(s) - Len(p) + 1) : SubSeq(s, k, k + Len(p) - 1) = p

ShouldIgnore(ignoreList, path) ==
    LET lowerPath == ToLowerCase(path)
    IN  \E n \in 1..Len(ignoreList) :
            LET p == ToLowerCase(ignoreList[n])
            IN  \/ EndsWith(lowerPath, p)
                \/ Includes(lowerPath, <<"/">> \o p \o <<"/">>)
                \/ StartsWith(lowerPath, p \o <<"/">>)

\* What the promise of one file resolves with: a record in a one-element
\* sequence, or null (the empty sequence).
Pending == [settled |-> FALSE, value |-> <<>>]

Settled(value) == [settled |-> TRUE, value |-> value]

OnLoad(file) == <<[path |-> file.path, content |-> file.content, size |-> file.size]>>

\* Mutant of OnError: the file is kept, with no content.
OnErrorKeepsFile(file) == <<[path |-> file.path, content |-> <<>>, size |-> file.size]>>

OnError(file) == <<>>

\* Mutant of ResultSlot: a result takes the first slot that is still open.
ResultSlotFirstOpen(results, k) ==
    CHOOSE n \in 1..Len(results) :
        /\ ~results[n].settled
        /\ \A o \in 1..(n - 1) : results[o].settled

\* Line 454: Promise.all gives the k-th promise's value the k-th place of
\* results, whenever it resolves.
ResultSlot(results, k) == k

\* Lines 454-464: the promises of the batch that starts at file i.
StartBatch(files, i) ==
    LET batch == SubSeq(files, i, Min(i + BatchSize - 1, Len(files)))
    IN  [k \in 1..Len(batch) |->
            IF ShouldIgnore(DEFAULT_IGNORE, batch[k].path) THEN Settled(<<>>) ELSE Pending]

\* results.filter(Boolean), as a sequence of records.
FilterBoolean(results) ==
    Concat([k \in 1..Len(results) |-> results[k].value])

\* The selections of the model: up to MaxSelect files, one of them of an
\* ignored type, alone or after BatchSize - 1 files of an ignored directory,
\* so that the selection takes two batches.
Path_icon == <<"i", "c", "o", "n", ".", "P", "N", "G">>

SelectPool == {File(Path_a_v1), File(Path_a_v2), File(Path_new), File(Path_icon)}

ShortSelections == {fs \in SeqsUpTo(SelectPool, MaxSelect) : HasNoRepeat(fs)}

Padding ==
    [k \in 1..(BatchSize - 1) |->
        File(<<"n", "o", "d", "e", "_", "m", "o", "d", "u", "l", "e", "s", "/">>
                \o <<LowerSeq[k]>>)]

Selections == ShortSelections \cup {Padding \o fs : fs \in ShortSelections \ {<<>>}}

InitialLists == {<<>>, <<File(Path_util_modern), File(Path_a_v2)>>}

IdleLoad ==
    [setFiles |-> "none", files |-> <<>>, i |-> 0, results |-> <<>>, fileData |-> <<>>,
     failed |-> {}, completed |-> <<>>]

InitLoad ==
    /\ v1Files \in InitialLists
    /\ v2Files \in InitialLists
    /\ matchedPairs = MatchedPairs(v1Files, v2Files)
    /\ isProcessing = FALSE
    /\ load = IdleLoad
    /\ NoComparison
    /\ NoSlugs
    /\ NoBacktrack
    /\ NoSelection
    /\ pc = "idle"

\* Lines 447-464, up to the first await: the change event of one of the two
\* directory inputs.  load.completed records the files whose reader has
\* fired, in the order the readers fired, load.failed those whose reader
\* fired onerror.
SelectDirectory(setFiles, files) ==
    /\ pc = "idle"
    /\ ~isProcessing
    /\ IF Len(files) = 0
       THEN UNCHANGED <<loadVars, pc>>
       ELSE /\ isProcessing' = TRUE
            /\ load' = [setFiles |-> setFiles, files |-> files, i |-> 1,
                        results |-> StartBatch(files, 1), fileData |-> <<>>,
                        failed |-> {}, completed |-> <<>>]
            /\ pc' = "reading"
    /\ UNCHANGED <<diffVars, matchVars, slugVars, bt, appVars>>

\* The k-th file of the batch is being read: it is not ignored and its
\* reader has not fired.
IsBeingRead(k) ==
    /\ ~ShouldIgnore(DEFAULT_IGNORE, load.files[load.i + k - 1].path)
    /\ \A n \in 1..Len(load.completed) : load.completed[n] # load.i + k - 1

\* Line 460: reader.onload of the k-th file of the batch.
ReadLoaded(k) ==
    /\ pc = "reading"
    /\ IsBeingRead(k)
    /\ load' = [load EXCEPT !.results[ResultSlot(load.results, k)] =
                                Settled(OnLoad(load.files[load.i + k - 1])),
                            !.completed = Append(@, load.i + k - 1)]
    /\ UNCHANGED <<diffVars, matchVars, slugVars, bt, isProcessing, pc, appVars>>

\* Line 461: reader.onerror of the k-th file of the batch.
ReadFailed(k) ==
    /\ pc = "reading"
    /\ IsBeingRead(k)
    /\ load' = [load EXCEPT !.results[ResultSlot(load.results, k)] =
                                Settled(OnError(load.files[load.i + k - 1])),
                            !.failed = @ \cup {load.i + k - 1},
                            !.completed = Append(@, load.i + k - 1)]
    /\ UNCHANGED <<diffVars, matchVars, slugVars, bt, isProcessing, pc, appVars>>

\* Lines 465-468 and 471-493: Promise.all has resolved; the results are
\* pushed, and either the next batch starts or the files are set, the
\* processing flag is cleared and the pairs are matched again.
ContinueLoad ==
    /\ pc = "reading"
    /\ \A k \in 1..Len(load.results) : load.results[k].settled
    /\ LET fileData == load.fileData \o FilterBoolean(load.results)
           next == load.i + BatchSize
       IN  IF next <= Len(load.files)
           THEN /\ load' = [load EXCEPT !.i = next,
                                        !.results = StartBatch(load.files, next),
                                        !.fileData = fileData]
                /\ UNCHANGED <<matchVars, isProcessing, pc>>
           ELSE /\ load' = [load EXCEPT !.results = <<>>, !.fileData = fileData]
                /\ v1Files' = IF load.setFiles = "setV1Files" THEN fileData ELSE v1Files
                /\ v2Files' = IF load.setFiles = "setV2Files" THEN fileData ELSE v2Files
                /\ matchedPairs' = MatchedPairs(v1Files', v2Files')
                /\ isProcessing' = FALSE
                /\ pc' = "done"
    /\ UNCHANGED <<diffVars, slugVars, bt, appVars>>

NextLoad ==
    \/ \E setFiles \in {"setV1Files", "setV2Files"}, files \in Selections :
          SelectDirectory(setFiles, files)
    \/ \E k \in 1..Len(load.results) : ReadLoaded(k) \/ ReadFailed(k)
    \/ ContinueLoad

SpecLoad == InitLoad /\ [][NextLoad]_vars

(***************************************************************************)
(* The application (App, lines 409-588, and ComparisonView, 345-407): the  *)
(* two directory inputs, the sidebar with its search box, the selected     *)
(* pair and its comparison, the copy button and the clear button.          *)
(* selectedPair and clipboard are <<>> or a one-element sequence.  The     *)
(* comparison of the selected pair is in oldText, newText, diff, chunks    *)
(* and isExpanded; they are empty while no ComparisonView is mounted.      *)
(***************************************************************************)
AppFile(path, content) == [path |-> path, content |-> content, size |-> Len(content)]

FoldRun == ContextLines * 2 + 3

\* The directories of the model: a base directory and a target directory
\* whose files pair up by slug and have a long unchanged run, and a target
\* directory of one empty file.
LongText(changed) == FoldText(FoldRun, changed, 0)

BaseSelection ==
    << AppFile(Path_a_v1, LongText(<<"a", " ", "b">>)),
       AppFile(Path_util_legacy, LongText(<<"a", " ", "b">>)) >>

TargetSelection ==
    << AppFile(Path_a_v2, LongText(<<"b", " ", "a">>)),
       AppFile(Path_util_modern, LongText(<<"b", " ", "a">>)) >>

EmptyFileSelection == << AppFile(Path_a_v2, <<>>) >>

BaseSelections == {<<>>, BaseSelection}

TargetSelections == {TargetSelection, EmptyFileSelection}

SearchTerms == {<<>>, <<"L", "E", "G">>}

\* Lines 495-497: the auto-select effect.
AutoSelect(pairs, selected) ==
    IF Len(pairs) > 0 /\ selected = <<>> THEN <<pairs[1]>> ELSE selected

\* Line 347: the content of one side of a pair, undefined when the side is
\* null.
SideContent(side) == IF side = <<>> THEN Undefined ELSE side[1].content

\* Lines 347-348, 401 and 275: the ComparisonView of the pair `next` after
\* the one of selectedPair.  The view is not keyed, and its ChunkBlocks are
\* keyed by their index: a ChunkBlock whose index was there before keeps
\* its isExpanded, every other one is mounted with false.
ShowPair(next) ==
    IF next = selectedPair THEN UNCHANGED diffVars
    ELSE IF next = <<>>
    THEN oldText' = <<>> /\ newText' = <<>> /\ diff' = <<>> /\ chunks' = <<>>
         /\ isExpanded' = <<>>
    ELSE /\ oldText' = SideContent(next[1].v1)
         /\ newText' = SideContent(next[1].v2)
         /\ diff' = CalculateDiff(oldText', newText')
         /\ chunks' = ChunkifyDiff(diff')
         /\ isExpanded' = [c \in 1..Len(chunks') |->
                              IF selectedPair # <<>> /\ c <= Len(isExpanded)
                              THEN isExpanded[c] ELSE FALSE]

\* Line 541: the sidebar filter.
IsListed(pair, term) ==
    LET path == IF pair.v2 = <<>> THEN <<>> ELSE pair.v2[1].path
    IN  \/ Includes(pair.slug, ToLowerCase(term))
        \/ Includes(ToLowerCase(path), ToLowerCase(term))

\* path.split('/').pop()
PathPop(path) == SplitOn(path, "/")[Len(SplitOn(path, "/"))]

\* Line 548: the file name shown for a pair.
DisplayedName(pair) ==
    LET targetName == IF pair.v2 = <<>> THEN <<>> ELSE PathPop(pair.v2[1].path)
    IN  IF targetName # <<>> THEN targetName
        ELSE IF pair.v1 = <<>> THEN <<>> ELSE PathPop(pair.v1[1].path)

\* Line 357: pair.v2?.content || pair.v1?.content || ''
CopyText(pair) ==
    IF pair.v2 # <<>> /\ pair.v2[1].content # <<>> THEN pair.v2[1].content
    ELSE IF pair.v1 # <<>> /\ pair.v1[1].content # <<>> THEN pair.v1[1].content
    ELSE <<>>

InitApp ==
    /\ NoFiles
    /\ NoComparison
    /\ NoSlugs
    /\ NoBacktrack
    /\ NoSelection
    /\ isProcessing = FALSE
    /\ load = IdleLoad
    /\ pc = "idle"

\* Lines 495-497 after the render that follows a load: the effect runs, the
\* comparison of the selected pair is shown, the handler's locals are gone.
RunEffects ==
    /\ pc = "done"
    /\ selectedPair' = AutoSelect(matchedPairs, selectedPair)
    /\ ShowPair(selectedPair')
    /\ load' = IdleLoad
    /\ pc' = "idle"
    /\ UNCHANGED <<matchVars, slugVars, bt, isProcessing, searchTerm, clipboard>>

\* Line 542: a click on the q-th pair, when the sidebar lists it.
SelectPair(q) ==
    /\ pc = "idle"
    /\ ~isProcessing
    /\ IsListed(matchedPairs[q], searchTerm)
    /\ selectedPair' = <<matchedPairs[q]>>
    /\ ShowPair(selectedPair')
    /\ UNCHANGED <<matchVars, slugVars, bt, loadVars, searchTerm, clipboard, pc>>

\* Line 516: Clear Workspace, shown when a file list is not empty; the
\* render after it finds no pairs, and the effect has nothing to select.
ClearWorkspace ==
    /\ pc = "idle"
    /\ ~isProcessing
    /\ Len(v1Files) > 0 \/ Len(v2Files) > 0
    /\ v1Files' = <<>>
    /\ v2Files' = <<>>
    /\ matchedPairs' = MatchedPairs(v1Files', v2Files')
    /\ selectedPair' = AutoSelect(matchedPairs', <<>>)
    /\ ShowPair(selectedPair')
    /\ UNCHANGED <<slugVars, bt, loadVars, searchTerm, clipboard, pc>>

\* The onChange of the search box, shown when there are pairs.
Search(term) ==
    /\ pc = "idle"
    /\ ~isProcessing
    /\ Len(matchedPairs) > 0
    /\ searchTerm' = term
    /\ UNCHANGED <<diffVars, matchVars, slugVars, bt, loadVars, selectedPair, clipboard, pc>>

\* Lines 356-361: Copy Target.
CopyToClipboard ==
    /\ pc = "idle"
    /\ ~isProcessing
    /\ selectedPair # <<>>
    /\ clipboard' = <<CopyText(selectedPair[1])>>
    /\ UNCHANGED <<diffVars, matchVars, slugVars, bt, loadVars, selectedPair, searchTerm, pc>>

NextApp ==
    \/ \E files \in BaseSelections : SelectDirectory("setV1Files", files)
    \/ \E files \in TargetSelections : SelectDirectory("setV2Files", files)
    \/ \E k \in 1..Len(load.results) : ReadLoaded(k) \/ ReadFailed(k)
    \/ ContinueLoad
    \/ RunEffects
    \/ \E q \in 1..Len(matchedPairs) : SelectPair(q)
    \/ ClearWorkspace
    \/ \E term \in SearchTerms : Search(term)
    \/ CopyToClipboard
    \/ \E c \in 1..Len(chunks) : Expand(c)

SpecApp == InitApp /\ [][NextApp]_vars

(***************************************************************************)
(* The file matcher (App, lines 471-493): the two file lists are the       *)
(* state set by the directory loads, Match computes the memoized pairs.    *)
(***************************************************************************)
InitMatch ==
    /\ v1Files \in FileLists
    /\ v2Files \in FileLists
    /\ matchedPairs = <<>>
    /\ NoComparison
    /\ NoSlugs
    /\ NoBacktrack
    /\ NoSelection
    /\ NoLoad
    /\ pc = "loaded"

Match ==
    /\ pc = "loaded"
    /\ matchedPairs' = MatchedPairs(v1Files, v2Files)
    /\ pc' = "matched"
    /\ UNCHANGED <<v1Files, v2Files, diffVars, slugVars, bt, loadVars, appVars>>

NextMatch == Match

SpecMatch == InitMatch /\ [][NextMatch]_vars

(***************************************************************************)
(* Properties.                                                             *)
(***************************************************************************)
Rendered == pc = "rendered"

Matched == pc = "matched"

Contents(ls) == [k \in 1..Len(ls) |-> ls[k].content]

NewlineCount(text) == Cardinality({k \in 1..Len(text) : text[k] = "\n"})

OldSide(d) == SelectSeq(d, LAMBDA l : l.type \in {"unchanged", "removed"})

NewSide(d) == SelectSeq(d, LAMBDA l : l.type \in {"unchanged", "added"})

HasType(d, t) == \E k \in 1..Len(d) : d[k].type = t

\* C1: edit-script soundness.  The unchanged and removed lines of the diff,
\* in output order, are the lines of the old text (joined by newlines they
\* give the old text back) numbered 1..m by oldLine, and the unchanged and
\* added lines are the lines of the new text numbered 1..n by newLine, m and
\* n being the numbers of lines of the two texts.
EditScriptSound ==
    Rendered =>
        LET olds == OldSide(diff)
            news == NewSide(diff)
        IN  /\ Len(olds) = NewlineCount(OrEmpty(oldText)) + 1
            /\ Len(news) = NewlineCount(OrEmpty(newText)) + 1
            /\ JoinLines(Contents(olds)) = OrEmpty(oldText)
            /\ JoinLines(Contents(news)) = OrEmpty(newText)
            /\ \A k \in 1..Len(olds) : olds[k].oldLine = k /\ "\n" \notin Range(olds[k].content)
            /\ \A k \in 1..Len(news) : news[k].newLine = k /\ "\n" \notin Range(news[k].content)

EditScriptWitness ==
    /\ Rendered
    /\ HasType(diff, "unchanged") /\ HasType(diff, "removed") /\ HasType(diff, "added")
    /\ Len(OldSide(diff)) # Len(NewSide(diff))

\* C2: the diff of a text with itself has only unchanged lines, one per
\* line of the text in order, each with oldLine = newLine, none of them
\* paired; the diff of "" with "" is one unchanged line with empty content.
IdenticalTextsUnchanged ==
    (Rendered /\ oldText = newText) =>
        /\ Len(diff) = NewlineCount(OrEmpty(oldText)) + 1
        /\ JoinLines(Contents(diff)) = OrEmpty(oldText)
        /\ \A k \in 1..Len(diff) :
              /\ diff[k].type = "unchanged"
              /\ diff[k].oldLine = k
              /\ diff[k].newLine = k
              /\ diff[k].pairedWith = 0
              /\ "\n" \notin Range(diff[k].content)
        /\ oldText = <<>> =>
              diff = <<[type |-> "unchanged", oldLine |-> 1, newLine |-> 1,
                        content |-> <<>>, pairedWith |-> 0, segments |-> <<>>]>>

IdenticalTextsWitness ==
    /\ Rendered
    /\ oldText = newText
    /\ Len(diff) = 3
    /\ diff[1].content # diff[2].content

\* C3: concatenating the lines of the chunks in order gives the diff back,
\* every chunk has at least one line, no chunk holds both an unchanged line
\* and a line that is not unchanged, and the chunks of the empty diff are
\* the empty sequence.
ChunksPartitionDiff ==
    /\ ChunkifyDiff(<<>>) = <<>>
    /\ Rendered =>
          /\ Concat([c \in 1..Len(chunks) |-> chunks[c].lines]) = diff
          /\ \A c \in 1..Len(chunks) :
                /\ Len(chunks[c].lines) >= 1
                /\ ~(/\ HasType(chunks[c].lines, "unchanged")
                     /\ \E k \in 1..Len(chunks[c].lines) :
                           chunks[c].lines[k].type # "unchanged")

ChunksPartitionWitness ==
    /\ Rendered
    /\ Len(chunks) >= 3
    /\ \E c \in 1..Len(chunks) :
          HasType(chunks[c].lines, "removed") /\ HasType(chunks[c].lines, "added")

\* The slugs of a file list, file by file.
RECURSIVE SlugSeqFrom(_, _, _)
SlugSeqFrom(files, k, out) ==
    IF k > Len(files) THEN out
    ELSE SlugSeqFrom(files, k + 1, Append(out, GetFileSlug(files[k].path)))

SlugSeq(files) == SlugSeqFrom(files, 1, <<>>)

FilesWithSlug(files, slugs, slug) == {files[k] : k \in {o \in 1..Len(files) : slugs[o] = slug}}

OnePairPerSlugFor(baseSlugSeq, targetSlugSeq) ==
    LET baseSlugs == Range(baseSlugSeq)
        targetSlugs == Range(targetSlugSeq)
    IN  /\ Len(matchedPairs) = Cardinality(baseSlugs \cup targetSlugs)
        /\ {matchedPairs[k].slug : k \in 1..Len(matchedPairs)} = baseSlugs \cup targetSlugs
        /\ \A k \in 1..Len(matchedPairs) :
              LET p == matchedPairs[k]
                  inBase == p.slug \in baseSlugs
                  inTarget == p.slug \in targetSlugs
              IN  /\ p.type = (IF inBase /\ inTarget THEN "modified"
                               ELSE IF inBase THEN "deleted" ELSE "added")
                  /\ (p.v1 # <<>>) = inBase
                  /\ (p.v2 # <<>>) = inTarget
                  /\ inBase => /\ Len(p.v1) = 1
                               /\ p.v1[1] \in FilesWithSlug(v1Files, baseSlugSeq, p.slug)
                  /\ inTarget => /\ Len(p.v2) = 1
                                 /\ p.v2[1] \in FilesWithSlug(v2Files, targetSlugSeq, p.slug)
        /\ (v1Files = <<>> /\ v2Files = <<>>) => matchedPairs = <<>>

\* C4: the match result has exactly one pair for every slug of either list
\* and no other pair (none when both lists are empty); a pair is modified
\* with both files iff both lists have a file of its slug, deleted with the
\* base file only iff only the base list has one, added with the target
\* file only iff only the target list has one.
OnePairPerSlug ==
    Matched => \A slugs \in {<<SlugSeq(v1Files), SlugSeq(v2Files)>>} :
                  OnePairPerSlugFor(slugs[1], slugs[2])

OnePairPerSlugWitness ==
    /\ Matched
    /\ \E i, j, k \in 1..Len(matchedPairs) :
          /\ matchedPairs[i].type = "modified"
          /\ matchedPairs[j].type = "deleted"
          /\ matchedPairs[k].type = "added"

\* Lexicographic order of two strings by the order of their characters.
LexBefore(a, b) ==
    \E k \in 1..(Len(a) + 1) :
        /\ k <= Len(b)
        /\ \A o \in 1..(k - 1) : a[o] = b[o]
        /\ k = Len(a) + 1 \/ CollationRank(a[k]) < CollationRank(b[k])

\* C5: the matched pairs are in ascending lexicographic order of their
\* slugs, and no slug is in more than one pair.
PairsSortedBySlug ==
    Matched =>
        /\ \A k \in 1..(Len(matchedPairs) - 1) :
              LexBefore(matchedPairs[k].slug, matchedPairs[k + 1].slug)
        /\ \A i, j \in 1..Len(matchedPairs) :
              i # j => matchedPairs[i].slug # matchedPairs[j].slug

\* The slugs come out of the two maps in an order that is not sorted.
PairsSortedWitness ==
    /\ Matched
    /\ Len(matchedPairs) = 3
    /\ Len(v1Files) >= 2
    /\ LexBefore(GetFileSlug(v1Files[2].path), GetFileSlug(v1Files[1].path))

FirstWithSlug(files, slugs, slug) ==
    files[CHOOSE k \in 1..Len(files) :
            slugs[k] = slug /\ \A o \in 1..(k - 1) : slugs[o] # slug]

IsLaterDuplicate(slugs, k) == \E o \in 1..(k - 1) : slugs[o] = slugs[k]

FirstFilePerSlugFor(baseSlugSeq, targetSlugSeq) ==
    /\ \A k \in 1..Len(matchedPairs) :
          LET p == matchedPairs[k]
          IN  /\ p.v1 # <<>> => p.v1 = <<FirstWithSlug(v1Files, baseSlugSeq, p.slug)>>
              /\ p.v2 # <<>> => p.v2 = <<FirstWithSlug(v2Files, targetSlugSeq, p.slug)>>
    /\ \A k \in 1..Len(v1Files) :
          IsLaterDuplicate(baseSlugSeq, k) =>
              \A o \in 1..Len(matchedPairs) : matchedPairs[o].v1 # <<v1Files[k]>>
    /\ \A k \in 1..Len(v2Files) :
          IsLaterDuplicate(targetSlugSeq, k) =>
              \A o \in 1..Len(matchedPairs) : matchedPairs[o].v2 # <<v2Files[k]>>

\* C6: when several files of one side share a slug, the pair of that slug
\* uses the first of them in that side's input order, on each side
\* independently, and the later ones are in no pair as that side's file.
FirstFilePerSlug ==
    Matched => \A slugs \in {<<SlugSeq(v1Files), SlugSeq(v2Files)>>} :
                  FirstFilePerSlugFor(slugs[1], slugs[2])

FirstFilePerSlugWitness ==
    /\ Matched
    /\ \E k \in 1..Len(v1Files) : IsLaterDuplicate(SlugSeq(v1Files), k)
    /\ \E k \in 1..Len(v2Files) : IsLaterDuplicate(SlugSeq(v2Files), k)
    /\ \E k \in 1..Len(matchedPairs) : matchedPairs[k].type = "modified"

ExampleBase == <<File(Path_a_v1), File(Path_util_legacy)>>

ExampleTarget == <<File(Path_a_v2), File(Path_util_modern), File(Path_new)>>

\* C7: matching base [a_v1.js, util-legacy.js] against target [a_v2.js,
\* util-modern.js, new.js] gives exactly the three pairs a (modified,
\* a_v1.js with a_v2.js), new (added, new.js), util (modified,
\* util-legacy.js with util-modern.js), in this order.
MatcherExample ==
    (Matched /\ v1Files = ExampleBase /\ v2Files = ExampleTarget) =>
        matchedPairs =
            <<[type |-> "modified", slug |-> <<"a">>,
               v1 |-> <<File(Path_a_v1)>>, v2 |-> <<File(Path_a_v2)>>],
              [type |-> "added", slug |-> <<"n", "e", "w">>,
               v1 |-> <<>>, v2 |-> <<File(Path_new)>>],
              [type |-> "modified", slug |-> <<"u", "t", "i", "l">>,
               v1 |-> <<File(Path_util_legacy)>>, v2 |-> <<File(Path_util_modern)>>]>>

MatcherExampleWitness ==
    /\ Matched
    /\ v1Files = ExampleBase
    /\ v2Files = ExampleTarget
    /\ Len(matchedPairs) = 3

\* The elements of A at the positions of S, in order.
RECURSIVE Pick(_, _, _)
Pick(A, S, k) ==
    IF k > Len(A) THEN <<>>
    ELSE (IF k \in S THEN <<A[k]>> ELSE <<>>) \o Pick(A, S, k + 1)

\* Whether s is a subsequence of B from position k on.
RECURSIVE IsSubsequence(_, _, _)
IsSubsequence(s, B, k) ==
    IF s = <<>> THEN TRUE
    ELSE IF k > Len(B) THEN FALSE
    ELSE IF Head(s) = B[k] THEN IsSubsequence(Tail(s), B, k + 1)
    ELSE IsSubsequence(s, B, k + 1)

\* The length of a longest common subsequence of A and B, by enumeration.
LongestCommonLength(A, B) ==
    LET common == {S \in SUBSET (1..Len(A)) : IsSubsequence(Pick(A, S, 1), B, 1)}
    IN  CHOOSE n \in 0..Len(A) :
            /\ \E S \in common : Cardinality(S) = n
            /\ \A S \in common : Cardinality(S) <= n

\* C8: the table built for the line sequences A (length m) and B (length
\* n) has m+1 rows of n+1 cells, row 0 and column 0 are zero, and cell
\* [i][j] is the length of a longest common subsequence of the first i
\* elements of A and the first j elements of B.
LCSTableCorrect ==
    Rendered =>
        LET A == SplitLines(oldText)
            B == SplitLines(newText)
            dp == BuildLCSTable(A, B)
        IN  /\ Len(dp) = Len(A) + 1
            /\ \A i \in 0..Len(A) :
                  /\ Len(dp[i + 1]) = Len(B) + 1
                  /\ Cell(dp, i, 0) = 0
                  /\ \A j \in 0..Len(B) :
                        /\ i = 0 => Cell(dp, i, j) = 0
                        /\ Cell(dp, i, j) =
                              LongestCommonLength(SubSeq(A, 1, i), SubSeq(B, 1, j))

\* A longest common subsequence that is neither empty nor a whole side, and
\* an unequal cell whose value comes from the left.
LCSTableWitness ==
    /\ Rendered
    /\ LET A == SplitLines(oldText)
           B == SplitLines(newText)
           dp == BuildLCSTable(A, B)
       IN  /\ Len(A) = 3
           /\ Len(B) = 3
           /\ Cell(dp, 3, 3) = 2
           /\ \E i \in 1..3, j \in 1..3 :
                 A[i] # B[j] /\ Cell(dp, i, j) > Cell(dp, i - 1, j)

\* C9: every line of the diff is paired with at most one line, pairing is
\* mutual, the two lines of a pair are at adjacent positions of the diff,
\* and one of them is removed and the other added.
PairingMutualAdjacent ==
    Rendered =>
        \A k \in 1..Len(diff) :
            diff[k].pairedWith # 0 =>
                LET o == diff[k].pairedWith
                IN  /\ o \in 1..Len(diff)
                    /\ diff[o].pairedWith = k
                    /\ o = k + 1 \/ o = k - 1
                    /\ {diff[k].type, diff[o].type} = {"removed", "added"}

\* A paired added line followed by a removed line.
PairingWitness ==
    /\ Rendered
    /\ \E k \in 2..(Len(diff) - 1) :
          /\ diff[k].type = "added"
          /\ diff[k].pairedWith = k - 1
          /\ diff[k + 1].type = "removed"

\* C10: in every segment sequence attached to a diff line, no two adjacent
\* segments have the same type.
SegmentsAlternate ==
    Rendered =>
        \A k \in 1..Len(diff) :
            diff[k].segments # <<>> =>
                LET segs == diff[k].segments[1]
                IN  \A o \in 1..(Len(segs) - 1) : segs[o].type # segs[o + 1].type

\* Segments in which several tokens were merged into one segment.
SegmentsWitness ==
    /\ Rendered
    /\ \E k \in 1..Len(diff) :
          /\ diff[k].segments # <<>>
          /\ Len(diff[k].segments[1]) = 3
          /\ \E o \in 1..3 : Len(Tokenize(diff[k].segments[1][o].value)) >= 2

\* The text a line shows from its segments (DiffLine.renderContent): the
\* values of the equal segments and of the segments of the line's own type.
ShownSegments(line) ==
    SelectSeq(line.segments[1], LAMBDA g : g.type = "equal" \/ g.type = line.type)

ShownText(line) ==
    Concat([k \in 1..Len(ShownSegments(line)) |-> ShownSegments(line)[k].value])

\* C11: for every paired line, the values of its segments of type equal or
\* of the line's own type, concatenated in order, are the line's content;
\* the segments of the opposite type contribute nothing.
SegmentsRebuildLine ==
    Rendered =>
        \A k \in 1..Len(diff) :
            diff[k].pairedWith # 0 =>
                /\ diff[k].segments # <<>>
                /\ ShownText(diff[k]) = diff[k].content

\* A paired line whose segments hold all three types.
SegmentsRebuildWitness ==
    /\ Rendered
    /\ \E k \in 1..Len(diff) :
          /\ diff[k].pairedWith # 0
          /\ diff[k].segments # <<>>
          /\ {diff[k].segments[1][o].type : o \in 1..Len(diff[k].segments[1])}
                = {"equal", "removed", "added"}
          /\ Len(ShownSegments(diff[k])) < Len(diff[k].segments[1])

Displayed(c) == ChunkBlock(chunks[c], isExpanded[c])

ItemLines(items) ==
    Concat([k \in 1..Len(items) |-> items[k].line])

HasFold(items) == \E k \in 1..Len(items) : items[k].kind = "fold"

\* C12: with context size 3, an unchanged chunk of n lines that was not
\* expanded is displayed folded iff n > 8, and then shows its first 3
\* lines, a fold marker with the hidden count n - 6 and its last 3 lines
\* (the two groups do not overlap, shown lines plus hidden count are n);
\* unchanged chunks of at most 8 lines and all changed chunks are displayed
\* in full.
FoldPolicy ==
    Rendered =>
        \A c \in 1..Len(chunks) :
            ~isExpanded[c] =>
                LET lines == chunks[c].lines
                    n == Len(lines)
                    items == Displayed(c)
                    unchanged == \A k \in 1..n : lines[k].type = "unchanged"
                IN  /\ HasFold(items) = (unchanged /\ n > 8)
                    /\ HasFold(items) =>
                          /\ Len(items) = 7
                          /\ \A k \in 1..3 : items[k] = LineItem(lines[k])
                          /\ items[4] = FoldItem(n - 6)
                          /\ \A k \in 1..3 : items[4 + k] = LineItem(lines[n - 3 + k])
                          /\ 3 < n - 3 + 1
                          /\ Len(ItemLines(items)) + items[4].count = n
                    /\ ~HasFold(items) => ItemLines(items) = lines

\* An unchanged chunk of exactly 9 lines, folded, next to one of 8 lines.
FoldPolicyWitness ==
    /\ Rendered
    /\ \E c, e \in 1..Len(chunks) :
          /\ Len(chunks[c].lines) = 9
          /\ HasFold(Displayed(c))
          /\ chunks[e].type = "unchanged"
          /\ Len(chunks[e].lines) = 8
          /\ ~HasFold(Displayed(e))

\* C13: every step of a displayed comparison leaves the chunks and the diff
\* lines as they are; a chunk that is expanded displays all of its lines in
\* order, and stays expanded with the same display when it is expanded
\* again.
ExpandShowsAllAndIsIdempotent ==
    [][pc = "rendered" =>
          /\ chunks' = chunks
          /\ diff' = diff
          /\ \A c \in 1..Len(chunks) :
                /\ isExpanded'[c] => ChunkBlock(chunks'[c], isExpanded'[c])
                                        = LineItems(chunks[c].lines)
                /\ isExpanded[c] =>
                      /\ isExpanded'[c]
                      /\ ChunkBlock(chunks'[c], isExpanded'[c]) = Displayed(c)]_vars

\* A chunk that folds and has been expanded.
ExpandWitness ==
    /\ Rendered
    /\ \E c \in 1..Len(chunks) :
          /\ ShouldFold(chunks[c])
          /\ isExpanded[c]
          /\ Len(Displayed(c)) = Len(chunks[c].lines)

OfExample == Rendered /\ oldText = ExampleOldText /\ newText = ExampleNewText

LinesOfType(d, t) == SelectSeq(d, LAMBDA l : l.type = t)

Foo == <<"f", "o", "o">>

Bar == <<"b", "a", "r">>

Baz == <<"b", "a", "z">>

MutuallyPaired(d, c1, c2) ==
    \E k, o \in 1..Len(d) :
        /\ d[k].content = c1
        /\ d[o].content = c2
        /\ d[k].pairedWith = o
        /\ d[o].pairedWith = k

\* C14 as stated: the diff of "foo\nbar\n" and "foo\nbaz\n" has one
\* unchanged line (foo), one removed line (bar) and one added line (baz),
\* bar and baz mutually paired.
ExampleOneUnchangedLine ==
    OfExample =>
        /\ Contents(LinesOfType(diff, "unchanged")) = <<Foo>>
        /\ Contents(LinesOfType(diff, "removed")) = <<Bar>>
        /\ Contents(LinesOfType(diff, "added")) = <<Baz>>
        /\ MutuallyPaired(diff, Bar, Baz)

\* C14, amended: the diff of "foo\nbar\n" and "foo\nbaz\n" is unchanged foo,
\* removed bar, added baz and one more unchanged line, the empty string
\* after the trailing newline; bar and baz are mutually paired.
ExampleKeepsTrailingLine ==
    OfExample =>
        /\ Len(diff) = 4
        /\ Contents(diff) = <<Foo, Bar, Baz, <<>>>>
        /\ [k \in 1..4 |-> diff[k].type] = <<"unchanged", "removed", "added", "unchanged">>
        /\ [k \in 1..4 |-> diff[k].oldLine] = <<1, 2, 0, 3>>
        /\ [k \in 1..4 |-> diff[k].newLine] = <<1, 0, 2, 3>>
        /\ MutuallyPaired(diff, Bar, Baz)
        /\ diff[1].pairedWith = 0
        /\ diff[4].pairedWith = 0

ExampleWitness == OfExample /\ Len(diff) = 4 /\ diff[2].pairedWith = 3

Slugged == pc = "slugged"

\* The part of a path after its last '/'.
FinalSegment(path) ==
    LET slashes == {k \in 1..Len(path) : path[k] = "/"}
        last == IF slashes = {} THEN 0 ELSE CHOOSE k \in slashes : \A o \in slashes : o <= k
    IN  SubSeq(path, last + 1, Len(path))

EqualIgnoringCase(a, b) ==
    /\ Len(a) = Len(b)
    /\ \A k \in 1..Len(a) : LowerChar(a[k]) = LowerChar(b[k])

IsString(x) == DOMAIN x = 1..Len(x)

\* C15: getFileSlug returns a string for every path, and two paths whose
\* final '/'-separated segments are equal ignoring letter case have the
\* same slug, whatever their directory parts.
SlugOfFinalSegmentIgnoringCase ==
    Slugged =>
        /\ Len(fileSlugs) = 2
        /\ IsString(fileSlugs[1])
        /\ IsString(fileSlugs[2])
        /\ EqualIgnoringCase(FinalSegment(paths[1]), FinalSegment(paths[2]))
              => fileSlugs[1] = fileSlugs[2]

\* Two paths in different directories, with names that differ in case and
\* lose a version, a stage marker or an extension, have the same slug.
SlugWitness ==
    /\ Slugged
    /\ FinalSegment(paths[1]) # FinalSegment(paths[2])
    /\ EqualIgnoringCase(FinalSegment(paths[1]), FinalSegment(paths[2]))
    /\ Len(FinalSegment(paths[1])) < Len(paths[1])
    /\ Len(FinalSegment(paths[2])) < Len(paths[2])
    /\ paths[1] # paths[2]
    /\ fileSlugs[1] = fileSlugs[2]
    /\ fileSlugs[1] # <<>>
    /\ Len(fileSlugs[1]) < Len(FinalSegment(paths[1]))

Backtracking == pc = "backtracking"

\* C16: for every pair of texts, in backtrackLCS the indices i and j are
\* never negative, i + j decreases at every iteration, at most m + n
\* iterations are made; when both indices are 0 the loop is left, and
\* calculateDiff followed by chunkifyDiff then gives the diff and the chunks
\* of the two texts.
BacktrackTerminates ==
    [][/\ bt' # <<>> =>
            /\ bt'.st.i >= 0
            /\ bt'.st.j >= 0
            /\ bt'.iterations <= Len(bt'.oldArr) + Len(bt'.newArr)
       /\ Backtracking /\ pc' = "backtracking" =>
            bt'.st.i + bt'.st.j < bt.st.i + bt.st.j
       /\ Backtracking /\ bt.st.i = 0 /\ bt.st.j = 0 => pc' = "rendered"
       /\ pc' = "rendered" =>
            /\ diff' = CalculateDiff(oldText', newText')
            /\ chunks' = ChunkifyDiff(diff')]_vars

\* The loop has been left after m + n iterations, for texts of several
\* lines with no line in common.
BacktrackWitness ==
    /\ Rendered
    /\ bt # <<>>
    /\ bt.iterations = Len(bt.oldArr) + Len(bt.newArr)
    /\ Len(bt.oldArr) > 1
    /\ Len(bt.newArr) > 1
    /\ bt.st.i = 0
    /\ bt.st.j = 0
    /\ Len(diff) = bt.iterations

CountType(d, t) == Cardinality({k \in 1..Len(d) : d[k].type = t})

\* C18: the ops of backtrackLCS hold as many equal ops as table[m][n], the
\* length of a longest common subsequence of the two line sequences; the
\* diff has that many unchanged lines, m minus that many removed lines and
\* n minus that many added lines.
EditScriptMinimal ==
    Rendered =>
        \A io \in {<<SplitLines(oldText), SplitLines(newText)>>} :
            LET A == io[1]
                B == io[2]
                dp == BuildLCSTable(A, B)
                ops == BacktrackLCS(dp, A, B, "WordOp")
                lcs == LongestCommonLength(A, B)
            IN  /\ CountType(ops, "equal") = Cell(dp, Len(A), Len(B))
                /\ Cell(dp, Len(A), Len(B)) = lcs
                /\ CountType(diff, "unchanged") = lcs
                /\ CountType(diff, "removed") = Len(A) - lcs
                /\ CountType(diff, "added") = Len(B) - lcs

\* Texts with two longest common subsequences, one line each.
EditScriptMinimalWitness ==
    /\ Rendered
    /\ SplitLines(oldText) = << <<"a", " ", "b">>, <<"b", " ", "a">> >>
    /\ SplitLines(newText) = << <<"b", " ", "a">>, <<"a", " ", "b">> >>
    /\ CountType(diff, "unchanged") = 1
    /\ CountType(diff, "removed") = 1
    /\ CountType(diff, "added") = 1

\* C19: an iteration of backtrackLCS at (i, j), both positive, emits an
\* equal op when A[i-1] = B[j-1], whatever the table holds; when the
\* elements differ and table[i][j-1] = table[i-1][j] it emits an added op
\* with value B[j-1] and decrements j only.
TieEmitsAdded ==
    [][Backtracking /\ pc' = "backtracking" /\ bt.st.i > 0 /\ bt.st.j > 0 =>
          LET i == bt.st.i
              j == bt.st.j
              op == Head(bt'.st.result)
          IN  /\ Len(bt'.st.result) = Len(bt.st.result) + 1
              /\ Tail(bt'.st.result) = bt.st.result
              /\ bt.oldArr[i] = bt.newArr[j] =>
                    /\ op.type = "equal"
                    /\ bt'.st.i = i - 1
                    /\ bt'.st.j = j - 1
              /\ (/\ bt.oldArr[i] # bt.newArr[j]
                  /\ Cell(bt.dp, i, j - 1) = Cell(bt.dp, i - 1, j)) =>
                    /\ op.type = "added"
                    /\ op.value = bt.newArr[j]
                    /\ bt'.st.i = i
                    /\ bt'.st.j = j - 1]_vars

\* The last op emitted is an added op, emitted at a position with both
\* indices positive, different elements and equal table cells.
TieWitness ==
    /\ Backtracking
    /\ bt.st.result # <<>>
    /\ bt.st.i > 0
    /\ LET op == Head(bt.st.result)
           i == bt.st.i
       IN  /\ op.type = "added"
           /\ bt.oldArr[i] # bt.newArr[op.newIdx]
           /\ Cell(bt.dp, i, op.newIdx - 1) = Cell(bt.dp, i - 1, op.newIdx)
           /\ Cell(bt.dp, i, op.newIdx - 1) > 0

\* The maximal runs of changed lines of d, as pairs of first and last index.
ChangedRuns(d) ==
    {se \in (1..Len(d)) \X (1..Len(d)) :
        /\ se[1] <= se[2]
        /\ \A k \in se[1]..se[2] : d[k].type # "unchanged"
        /\ se[1] = 1 \/ d[se[1] - 1].type = "unchanged"
        /\ se[2] = Len(d) \/ d[se[2] + 1].type = "unchanged"}

\* R[1], A[1], R[2], A[2], ... as far as each of the two sequences goes.
RECURSIVE Layout(_, _, _)
Layout(R, A, k) ==
    IF k > Max(Len(R), Len(A)) THEN <<>>
    ELSE (IF k <= Len(R) THEN <<R[k]>> ELSE <<>>)
            \o (IF k <= Len(A) THEN <<A[k]>> ELSE <<>>)
            \o Layout(R, A, k + 1)

LoadDone == pc = "done"

LoadedFiles == IF load.setFiles = "setV1Files" THEN v1Files ELSE v2Files

\* The selected files that are not ignored and whose read did not fail, in
\* the order of the selection.
ReadableFiles ==
    LET keep == {k \in 1..Len(load.files) :
                    /\ ~ShouldIgnore(DEFAULT_IGNORE, load.files[k].path)
                    /\ k \notin load.failed}
        Nth(n) == CHOOSE k \in keep : Cardinality({o \in keep : o < k}) = n - 1
    IN  [n \in 1..Cardinality(keep) |-> load.files[Nth(n)]]

\* C17: when a directory load has completed, the processing flag is false
\* and the file list that was set holds no file whose read failed and every
\* other file of the selection that is not ignored, in selection order;
\* while the load is under way the flag is true and the batch under way is
\* a batch of the selection, whatever reads have failed.
FailedReadsOmitted ==
    /\ LoadDone =>
          /\ ~isProcessing
          /\ LoadedFiles = ReadableFiles
          /\ \A k \in load.failed :
                \A n \in 1..Len(LoadedFiles) : LoadedFiles[n].path # load.files[k].path
          /\ matchedPairs = MatchedPairs(v1Files, v2Files)
    /\ pc = "reading" =>
          /\ isProcessing
          /\ load.i <= Len(load.files)
          /\ Len(load.results) = Min(BatchSize, Len(load.files) - load.i + 1)
          /\ \A k \in load.failed : k < load.i + Len(load.results)

\* A load of two batches has completed with a failed read, an ignored file
\* and a file that was read.
FailedReadsWitness ==
    /\ LoadDone
    /\ Len(load.files) > BatchSize
    /\ load.failed # {}
    /\ LoadedFiles # <<>>
    /\ Len(LoadedFiles) + Cardinality(load.failed) < Len(load.files)
    /\ ~isProcessing

\* C21: a line of the diff carries segments iff it is paired; the two
\* lines of a pair carry the same segments, the coalesced word diff of the
\* removed line's content against the added line's content.
SegmentsIffPaired ==
    Rendered =>
        \A k \in 1..Len(diff) :
            /\ (diff[k].segments # <<>>) = (diff[k].pairedWith # 0)
            /\ diff[k].pairedWith # 0 =>
                  LET o == diff[k].pairedWith
                      removedLine == IF diff[k].type = "removed" THEN diff[k] ELSE diff[o]
                      addedLine == IF diff[k].type = "added" THEN diff[k] ELSE diff[o]
                  IN  /\ diff[o].segments = diff[k].segments
                      /\ diff[k].segments =
                            <<Coalesce(GetWordDiff(removedLine.content, addedLine.content),
                                       1, <<>>)>>

\* A run removed, added, removed: a pair with segments, and a removed line
\* next to the paired added line that has neither pair nor segments.
SegmentsIffPairedWitness ==
    /\ Rendered
    /\ \E k \in 1..(Len(diff) - 2) :
          /\ diff[k].type = "removed"
          /\ diff[k].pairedWith = k + 1
          /\ diff[k].segments # <<>>
          /\ diff[k].content # diff[k + 1].content
          /\ diff[k + 2].type = "removed"
          /\ diff[k + 2].pairedWith = 0
          /\ diff[k + 2].segments = <<>>

IsUnchangedChunk(chunk) == \A k \in 1..Len(chunk.lines) : chunk.lines[k].type = "unchanged"

IsChangedChunk(chunk) == \A k \in 1..Len(chunk.lines) : chunk.lines[k].type # "unchanged"

\* C22: the chunks of a diff alternate between chunks of unchanged lines
\* and chunks of changed lines, and the type of a chunk is unchanged iff all
\* of its lines are unchanged.
ChunksMaximal ==
    Rendered =>
        /\ \A c \in 1..Len(chunks) :
              /\ IsUnchangedChunk(chunks[c]) \/ IsChangedChunk(chunks[c])
              /\ (chunks[c].type = "unchanged") = IsUnchangedChunk(chunks[c])
        /\ \A c \in 1..(Len(chunks) - 1) :
              IsUnchangedChunk(chunks[c]) # IsUnchangedChunk(chunks[c + 1])

\* A changed chunk that holds removed and added lines, between two
\* unchanged chunks.
ChunksMaximalWitness ==
    /\ Rendered
    /\ \E c \in 2..(Len(chunks) - 1) :
          /\ chunks[c - 1].type = "unchanged"
          /\ HasType(chunks[c].lines, "removed")
          /\ HasType(chunks[c].lines, "added")
          /\ chunks[c + 1].type = "unchanged"

\* The positions in d, from s to e, of the lines of type t, in order.
PositionsOfType(d, s, e, t) ==
    LET ps == {k \in s..e : d[k].type = t}
        Nth(n) == CHOOSE k \in ps : Cardinality({o \in ps : o < k}) = n - 1
    IN  [n \in 1..Cardinality(ps) |-> Nth(n)]

RunSidesDiffer ==
    Rendered =>
        \A se \in ChangedRuns(diff) :
            \A k, o \in se[1]..se[2] :
                diff[k].type = "removed" /\ diff[o].type = "added"
                    => diff[k].content # diff[o].content

\* A content that is removed and added in the same diff, in two runs with
\* an unchanged line between them.
RunSidesDifferWitness ==
    /\ Rendered
    /\ \E k, o \in 1..Len(diff) :
          /\ diff[k].type = "removed"
          /\ diff[o].type = "added"
          /\ diff[k].content = diff[o].content
          /\ \E u \in (Min(k, o) + 1)..(Max(k, o) - 1) : diff[u].type = "unchanged"
    /\ \E se \in ChangedRuns(diff) : se[2] > se[1]

\* C28 as stated: when the old content is absent the diff has no removed
\* line and its added lines are the lines of the new content; when the new
\* content is absent the diff has no added line and its removed lines are
\* the lines of the old content.
AbsentSideHasNoLines ==
    Rendered =>
        /\ oldText = Undefined /\ newText # Undefined =>
              /\ ~HasType(diff, "removed")
              /\ Contents(LinesOfType(diff, "added")) = SplitLines(newText)
        /\ newText = Undefined /\ oldText # Undefined =>
              /\ ~HasType(diff, "added")
              /\ Contents(LinesOfType(diff, "removed")) = SplitLines(oldText)

\* The place in the selection of the n-th file of the list that was set.
SourceIndex(n) ==
    CHOOSE k \in 1..Len(load.files) : load.files[k].path = LoadedFiles[n].path

\* C30: the file list a directory load sets holds the files of the
\* selection whose reader fired onload, each with what was read, in the
\* order of the selection, whatever the order the readers fired in; the
\* pair of a slug then has, on the loaded side, the first such file of the
\* selection with that slug.
LoadKeepsSelectionOrder ==
    LoadDone =>
        /\ \A n \in 1..Len(LoadedFiles) :
              /\ \E k \in 1..Len(load.files) : load.files[k].path = LoadedFiles[n].path
              /\ LoadedFiles[n] = load.files[SourceIndex(n)]
              /\ \A o \in 1..(n - 1) : SourceIndex(o) < SourceIndex(n)
        /\ {SourceIndex(n) : n \in 1..Len(LoadedFiles)}
              = {load.completed[n] : n \in 1..Len(load.completed)} \ load.failed
        /\ \A q \in 1..Len(matchedPairs) :
              LET side == IF load.setFiles = "setV1Files"
                          THEN matchedPairs[q].v1 ELSE matchedPairs[q].v2
                  same == {n \in 1..Len(LoadedFiles) :
                              GetFileSlug(LoadedFiles[n].path) = matchedPairs[q].slug}
              IN  side # <<>> =>
                      \E n \in same :
                          /\ side = <<LoadedFiles[n]>>
                          /\ \A o \in same : SourceIndex(n) <= SourceIndex(o)

\* Two files of one slug were read, the second of the selection first; the
\* first of the selection is the one in the pair.
LoadOrderWitness ==
    /\ LoadDone
    /\ Len(LoadedFiles) = 2
    /\ Len(load.completed) = 2
    /\ load.completed[1] > load.completed[2]
    /\ GetFileSlug(LoadedFiles[1].path) = GetFileSlug(LoadedFiles[2].path)
    /\ \E q \in 1..Len(matchedPairs) :
          IF load.setFiles = "setV1Files"
          THEN matchedPairs[q].v1 = <<LoadedFiles[1]>>
          ELSE matchedPairs[q].v2 = <<LoadedFiles[1]>>

EffectsHaveRun == pc = "idle"

\* C23 as stated: whenever a different pair is selected and its comparison
\* is displayed, every unchanged chunk of it with more than 2C + 2 lines is
\* displayed folded, whatever was expanded before.
NewPairStartsFolded ==
    [][selectedPair' # selectedPair /\ selectedPair' # <<>> =>
          \A c \in 1..Len(chunks') :
              (/\ chunks'[c].type = "unchanged"
               /\ Len(chunks'[c].lines) > 2 * ContextLines + 2)
                  => HasFold(ChunkBlock(chunks'[c], isExpanded'[c]))]_vars

\* C24 as stated: every pair whose displayed file name contains the search
\* term, ignoring case, is listed in the sidebar.
SearchListsByName ==
    EffectsHaveRun =>
        \A q \in 1..Len(matchedPairs) :
            Includes(ToLowerCase(DisplayedName(matchedPairs[q])), ToLowerCase(searchTerm))
                => IsListed(matchedPairs[q], searchTerm)

\* C25 as stated: Copy Target writes the target file's content when the
\* selected pair has a target file, and the base file's content only when
\* it has none.
CopyWritesTarget ==
    [][clipboard' # clipboard =>
          /\ selectedPair # <<>>
          /\ selectedPair[1].v2 # <<>> => clipboard' = <<selectedPair[1].v2[1].content>>
          /\ selectedPair[1].v2 = <<>> => clipboard' = <<selectedPair[1].v1[1].content>>]_vars

\* C29 as stated: once the effects have run, the selected pair is none or
\* one of the pairs of the match list, and it is not none when the match
\* list is not empty.
SelectionInMatchList ==
    EffectsHaveRun =>
        /\ \/ selectedPair = <<>>
           \/ \E q \in 1..Len(matchedPairs) : matchedPairs[q] = selectedPair[1]
        /\ Len(matchedPairs) > 0 => selectedPair # <<>>

=============================================================================
